---- MODULE Spec2Model ----
(***************************************************************************)
(* Model of selenium_util.py: class DriverBase, a wrapper around a         *)
(* selenium webdriver.  The program is single threaded; its call stack is  *)
(* the variable pilha.  The browser (the page and the clock) is the        *)
(* environment and moves between any two steps of the program.             *)
(***************************************************************************)
EXTENDS Integers, Sequences, FiniteSets, TLC

\* ---------------------------------------------------------------- bounds
MaxT == 1          \* largest tempo_espera tried
MaxElems == 2      \* largest number of elements the selector matches
MaxPolls == 2      \* readiness polls followed inside one _aguarda_carregamento
MaxDepth == 1      \* deepest frame nesting of the driver context

MaxTime == MaxT + 2

Valores == {"1", "2"}
ReadyStates == {"loading", "complete", "COMPLETE"}
Condicoes == {"None", "ne2"}
Formatos == {"None", "fmt"}

VARIABLES
  tempo_espera,    \* self._tempo_espera
  relogio,         \* the clock, counted from the invocation of the operation
  elems,           \* the page: values of the elements the selector matches
  contexto,        \* frame depth of the driver context (0 = top-level)
  pilha,           \* call stack, frames [f, pc], top is the last
  args,            \* arguments of the public operation in progress
  op,              \* public operation invoked last
  ret,             \* value returned by the callee that returned last
  resultado,       \* outcome of the public operation: return value or exception
  tempo_inicial, tempo_limite, carregando,   \* locals of _aguarda_carregamento
  polls,           \* execute_script calls of the current/last readiness wait
  ultimoEstado,    \* readyState the last poll read
  end_time,        \* local of WebDriverWait.until
  metodo,          \* the expected condition until is polling
  observou,        \* what the last until poll observed
  elementos,       \* local elementos of the comprehensions (element count)
  i, acc,          \* position and result list of the comprehension
  aguardou,        \* a readiness poll completed in this invocation
  ultima,          \* last call of this invocation that acted on the browser
  contextoAntes,   \* frame depth when the operation was invoked
  mudou            \* the page changed a value during this invocation

vars == <<tempo_espera, relogio, elems, contexto, pilha, args, op, ret,
          resultado, tempo_inicial, tempo_limite, carregando, polls,
          ultimoEstado, end_time, metodo, observou, elementos, i, acc,
          aguardou, ultima, contextoAntes, mudou>>

espera == <<tempo_inicial, tempo_limite, carregando, polls, ultimoEstado>>
compr == <<elementos, i, acc>>
pagina == <<elems, contexto>>
fixo == <<tempo_espera, args, op, contextoAntes>>
ate == <<end_time, metodo, observou>>

\* ---------------------------------------------------------------- values
Nada == [k |-> "None", n |-> 0, s |-> <<>>]
Elemento(n) == [k |-> "elemento", n |-> n, s |-> <<>>]
Lista(n) == [k |-> "elementos", n |-> n, s |-> <<>>]
Texto(v) == [k |-> "str", n |-> 0, s |-> <<v>>]
Textos(s) == [k |-> "lista", n |-> 0, s |-> s]
Inteiro(n) == [k |-> "int", n |-> n, s |-> <<>>]
Verdadeiro == [k |-> "bool", n |-> 1, s |-> <<>>]

SemResultado == [tipo |-> "nenhum", exc |-> "", val |-> Nada]

ArgsPadrao == [tipo_seletor |-> FALSE, seletor |-> FALSE, atributo |-> FALSE,
               funcao_condicao |-> "None", funcao_formato |-> "None",
               enter |-> FALSE]

\* str.lower() on the readyState strings
Lower(s) ==
  CASE s = "COMPLETE" -> "complete"
    [] s = "LOADING" -> "loading"
    [] OTHER -> s

\* funcao_condicao; "None" is funcao_aux_condicao
funcao_condicao(c, v) == IF c = "None" THEN TRUE ELSE v # "2"

\* funcao_formato; "None" is funcao_aux_formato
funcao_formato(f, v) == IF f = "None" THEN v ELSE "<" \o v \o ">"

\* ---------------------------------------------------------------- stack
Topo == pilha[Len(pilha)]
Em(f, l) == pilha # <<>> /\ Topo.f = f /\ Topo.pc = l
Ocioso == pilha = <<>>

Vai(l) == pilha' = [pilha EXCEPT ![Len(pilha)].pc = l]

Chama(f, cont) ==
  pilha' = [pilha EXCEPT ![Len(pilha)].pc = cont] \o <<[f |-> f, pc |-> "ini"]>>

\* return v to the caller; the public operation's return is its outcome
Retorna(v) ==
  /\ pilha' = SubSeq(pilha, 1, Len(pilha) - 1)
  /\ ret' = v
  /\ resultado' = IF Len(pilha) = 1
                  THEN [tipo |-> "retorno", exc |-> "", val |-> v]
                  ELSE resultado

\* no function of the module catches anything: an exception ends the operation
Levanta(e) ==
  /\ pilha' = <<>>
  /\ ret' = Nada
  /\ resultado' = [tipo |-> "excecao", exc |-> e, val |-> Nada]

\* a step that only moves the program counter or calls
SoPilha ==
  UNCHANGED <<fixo, espera, compr, pagina, ate, relogio, ret, resultado,
              aguardou, ultima, mudou>>

\* a step that only returns or raises
SoRetorno ==
  UNCHANGED <<fixo, espera, compr, pagina, ate, relogio, aguardou, ultima,
              mudou>>

\* a step that only calls the driver and returns or raises
SoDriver ==
  UNCHANGED <<fixo, espera, compr, pagina, ate, relogio, aguardou, mudou>>

\* a caller invokes public operation o with arguments a
Invoca(o, a) ==
  /\ Ocioso
  /\ pilha' = <<[f |-> o, pc |-> "ini"]>>
  /\ op' = o
  /\ args' = a
  /\ contextoAntes' = contexto
  /\ ret' = Nada
  /\ resultado' = SemResultado
  /\ tempo_inicial' = 0 /\ tempo_limite' = 0 /\ carregando' = TRUE
  /\ polls' = 0 /\ ultimoEstado' = "nenhum"
  /\ end_time' = 0 /\ metodo' = "nenhum" /\ observou' = FALSE
  /\ elementos' = 0 /\ i' = 1 /\ acc' = <<>>
  /\ aguardou' = FALSE /\ ultima' = "nenhuma" /\ mudou' = FALSE
  /\ relogio' = 0
  /\ UNCHANGED <<tempo_espera, pagina>>

ComSeletor == [ArgsPadrao EXCEPT !.tipo_seletor = TRUE, !.seletor = TRUE]

\* ------------------------------------------------- _aguarda_carregamento
\* faulty variant: the deadline forgets the timeout
tempo_limite_sem_espera(t0, T) == t0

tempo_limite_de(t0, T) == t0 + T

\* faulty variant: the readyState is compared as it comes
Carregando_sem_lower(rs) == rs # "complete"

Carregando(rs) == Lower(rs) # "complete"

ContinuaEspera(agora, limite, carr) == agora < limite /\ carr

\* the locals go out of scope when the wait returns
FimEspera ==
  /\ tempo_inicial' = 0 /\ tempo_limite' = 0 /\ carregando' = TRUE
  /\ polls' = 0 /\ ultimoEstado' = "nenhum"

aguarda_ini ==
  /\ Em("_aguarda_carregamento", "ini")
  /\ tempo_inicial' = relogio
  /\ tempo_limite' = tempo_limite_de(relogio, tempo_espera)
  /\ polls' = 0
  /\ carregando' = TRUE
  /\ ultimoEstado' = "nenhum"
  /\ Vai("poll")
  /\ UNCHANGED <<fixo, compr, pagina, ate, relogio, ret, resultado, aguardou,
                 ultima, mudou>>

\* self.execute_script(js_script).lower() != 'complete'
aguarda_poll ==
  /\ Em("_aguarda_carregamento", "poll")
  /\ \E rs \in ReadyStates :
       /\ carregando' = Carregando(rs)
       /\ ultimoEstado' = rs
  /\ polls' = IF polls < MaxPolls THEN polls + 1 ELSE polls
  /\ aguardou' = TRUE
  /\ Vai("teste")
  /\ UNCHANGED <<fixo, compr, pagina, ate, relogio, ret, resultado,
                 tempo_inicial, tempo_limite, ultima, mudou>>

\* faulty variant: the wait raises when the deadline passes with the page loading
aguarda_teste_levanta ==
  /\ Em("_aguarda_carregamento", "teste")
  /\ IF ContinuaEspera(relogio, tempo_limite, carregando)
     THEN Vai("poll") /\ UNCHANGED <<ret, resultado, espera>>
     ELSE IF carregando
          THEN Levanta("TimeoutException") /\ UNCHANGED espera
          ELSE Retorna(Nada) /\ FimEspera
  /\ UNCHANGED <<fixo, compr, pagina, ate, relogio, aguardou, ultima, mudou>>

\* while time.time() < tempo_limite and carregando
aguarda_teste ==
  /\ Em("_aguarda_carregamento", "teste")
  /\ IF ContinuaEspera(relogio, tempo_limite, carregando)
     THEN Vai("poll") /\ UNCHANGED <<ret, resultado, espera>>
     ELSE Retorna(Nada) /\ FimEspera
  /\ UNCHANGED <<fixo, compr, pagina, ate, relogio, aguardou, ultima, mudou>>

_aguarda_carregamento == aguarda_ini \/ aguarda_poll \/ aguarda_teste

\* ------------------------------------------------------ WebDriverWait.until
ate_ini ==
  /\ Em("until", "ini")
  /\ end_time' = relogio + tempo_espera
  /\ observou' = FALSE
  /\ ultima' = "until"
  /\ Vai("poll")
  /\ UNCHANGED <<fixo, espera, compr, pagina, relogio, ret, resultado, metodo,
                 aguardou, mudou>>

\* value = method(driver): the element(s), True, or a falsy value
Condicao(m, vis, disp) ==
  CASE m = "todos" -> Len(elems) > 0
    [] m = "frame" -> disp /\ contexto < MaxDepth
    [] OTHER -> Len(elems) > 0 /\ vis

ValorDe(m) ==
  CASE m = "todos" -> Lista(Len(elems))
    [] m = "frame" -> Verdadeiro
    [] OTHER -> Elemento(1)

\* faulty variant: until gives up with None instead of raising
AoEsgotar_devolve_nada == Retorna(Nada)

\* the outcome of until when the deadline has passed
AoEsgotar == Levanta("TimeoutException")

ate_poll ==
  /\ Em("until", "poll")
  /\ IF ~args.seletor
     THEN /\ Levanta("InvalidArgumentException")
          /\ UNCHANGED <<observou, contexto, end_time>>
     ELSE \E vis \in BOOLEAN, disp \in BOOLEAN :
            /\ observou' = Condicao(metodo, vis, disp)
            /\ IF Condicao(metodo, vis, disp)
               THEN /\ Retorna(ValorDe(metodo))
                    /\ contexto' = IF metodo = "frame" THEN contexto + 1
                                   ELSE contexto
                    /\ end_time' = 0
               ELSE /\ Vai("sono")
                    /\ UNCHANGED <<ret, resultado, contexto, end_time>>
  /\ UNCHANGED <<fixo, espera, compr, elems, relogio, metodo, aguardou,
                 ultima, mudou>>

\* time.sleep(poll); if time.monotonic() > end_time: break; raise
ate_sono ==
  /\ Em("until", "sono")
  /\ IF relogio > end_time
     THEN AoEsgotar
     ELSE Vai("poll") /\ UNCHANGED <<ret, resultado>>
  /\ SoRetorno

until == ate_ini \/ ate_poll \/ ate_sono

\* ------------------------------------------------------------ busca_*
\* faulty variant: the operation goes on without the readiness wait
Entrada_sem_espera(f, cont) ==
  /\ Em(f, "ini")
  /\ Vai(cont)
  /\ SoPilha

\* every public operation but acessa_url starts with self._aguarda_carregamento()
Entrada(f, cont) ==
  /\ Em(f, "ini")
  /\ Chama("_aguarda_carregamento", cont)
  /\ SoPilha

Busca(f, m) ==
  \/ Entrada(f, "until")
  \/ /\ Em(f, "until")
     /\ metodo' = m
     /\ Chama("until", "fim")
     /\ UNCHANGED <<fixo, espera, compr, pagina, relogio, ret, resultado,
                    end_time, observou, aguardou, ultima, mudou>>
  \/ /\ Em(f, "fim")
     /\ Retorna(ret)
     /\ SoRetorno

busca_elemento_clicavel ==
  \/ Invoca("busca_elemento_clicavel", ComSeletor)
  \/ Busca("busca_elemento_clicavel", "clicavel")

busca_elemento_visivel ==
  \/ Invoca("busca_elemento_visivel", ComSeletor)
  \/ Busca("busca_elemento_visivel", "visivel")

busca_elementos ==
  \/ Invoca("busca_elementos", ComSeletor)
  \/ Busca("busca_elementos", "todos")

\* ----------------------------------------------------- public operations
\* the driver call that ends an operation returning None
Age(f, chamada) ==
  /\ Em(f, "age")
  /\ ultima' = chamada
  /\ Retorna(Nada)
  /\ SoDriver

\* self._driver.get(url): the browser shows the new document
acessa_url ==
  \/ Invoca("acessa_url", ArgsPadrao)
  \/ /\ Em("acessa_url", "ini")
     /\ \E n \in 0..MaxElems : \E p \in [1..n -> Valores] : elems' = p
     /\ contexto' = 0
     /\ ultima' = "get"
     /\ Retorna(Nada)
     /\ UNCHANGED <<fixo, espera, compr, ate, relogio, aguardou, mudou>>

PorVisivel(f) ==
  \/ Entrada(f, "busca")
  \/ /\ Em(f, "busca")
     /\ Chama("busca_elemento_visivel", "age")
     /\ SoPilha

aponta_para_elemento ==
  \/ Invoca("aponta_para_elemento", ComSeletor)
  \/ PorVisivel("aponta_para_elemento")
  \/ Age("aponta_para_elemento", "move_to_element")

clica_elemento ==
  \/ Invoca("clica_elemento", ComSeletor)
  \/ PorVisivel("clica_elemento")
  \/ Age("clica_elemento", "click")

clica_botao_direito_elemento ==
  \/ \E t \in BOOLEAN, sl \in BOOLEAN :
       Invoca("clica_botao_direito_elemento",
              [ArgsPadrao EXCEPT !.tipo_seletor = t, !.seletor = sl])
  \/ Entrada("clica_botao_direito_elemento", "ramo")
  \/ /\ Em("clica_botao_direito_elemento", "ramo")
     /\ IF args.tipo_seletor
        THEN Chama("busca_elemento_clicavel", "age")
        ELSE Vai("age")
     /\ SoPilha
  \/ Age("clica_botao_direito_elemento", "context_click")

\* Select(...).select_by_value(valor_opcao)
insere_opcao_elemento ==
  \/ Invoca("insere_opcao_elemento", ComSeletor)
  \/ PorVisivel("insere_opcao_elemento")
  \/ /\ Em("insere_opcao_elemento", "age")
     /\ ultima' = "select_by_value"
     /\ \E existe \in BOOLEAN :
          IF existe THEN Retorna(Nada) ELSE Levanta("NoSuchElementException")
     /\ SoDriver

insere_texto_elemento ==
  \/ \E e \in BOOLEAN :
       Invoca("insere_texto_elemento", [ComSeletor EXCEPT !.enter = e])
  \/ PorVisivel("insere_texto_elemento")
  \/ /\ Em("insere_texto_elemento", "age")
     /\ ultima' = "clear"
     /\ Vai("send")
     /\ UNCHANGED <<ret, resultado>>
     /\ SoDriver
  \/ /\ Em("insere_texto_elemento", "send")
     /\ ultima' = "send_keys"
     /\ IF args.enter
        THEN Vai("enter") /\ UNCHANGED <<ret, resultado>>
        ELSE Retorna(Nada)
     /\ SoDriver
  \/ /\ Em("insere_texto_elemento", "enter")
     /\ ultima' = "send_keys_enter"
     /\ Retorna(Nada)
     /\ SoDriver

\* what retorna_atributo_elemento hands back for the attribute value v
DevolveAtributo(v) == Nada

retorna_atributo_elemento ==
  \/ Invoca("retorna_atributo_elemento", [ComSeletor EXCEPT !.atributo = TRUE])
  \/ PorVisivel("retorna_atributo_elemento")
  \/ /\ Em("retorna_atributo_elemento", "age")
     /\ acc' = <<elems[ret.n]>>
     /\ Retorna(DevolveAtributo(elems[ret.n]))
     /\ UNCHANGED <<fixo, espera, pagina, ate, relogio, aguardou, ultima,
                    mudou, elementos, i>>

retorna_texto_elemento ==
  \/ Invoca("retorna_texto_elemento", ComSeletor)
  \/ PorVisivel("retorna_texto_elemento")
  \/ /\ Em("retorna_texto_elemento", "age")
     /\ acc' = <<elems[ret.n]>>
     /\ Retorna(Texto(elems[ret.n]))
     /\ UNCHANGED <<fixo, espera, pagina, ate, relogio, aguardou, ultima,
                    mudou, elementos, i>>

\* ------------------------------------------------------- comprehensions
\* [funcao_formato(e.get()) for e in elementos if funcao_condicao(e.get())]
\* faulty variant: the comprehension keeps every element
PassoCondicao_sem_filtro(f, v) ==
  /\ Vai("formato")
  /\ UNCHANGED i

\* the "if" of the comprehension, on the value v read from element i
PassoCondicao(f, v) ==
  IF funcao_condicao(args.funcao_condicao, v)
  THEN /\ Vai("formato")
       /\ UNCHANGED i
  ELSE /\ i' = i + 1
       /\ UNCHANGED pilha

\* the element expression of the comprehension, on the value v read again
PassoFormato(f, v) ==
  /\ acc' = Append(acc, funcao_formato(args.funcao_formato, v))
  /\ i' = i + 1
  /\ Vai("condicao")

Compreensao(f) ==
  \/ Entrada(f, "busca")
  \/ /\ Em(f, "busca")
     /\ Chama("busca_elementos", "atribui")
     /\ SoPilha
  \/ /\ Em(f, "atribui")
     /\ elementos' = ret.n
     /\ i' = 1 /\ acc' = <<>>
     /\ Vai("condicao")
     /\ UNCHANGED <<fixo, espera, pagina, ate, relogio, ret, resultado,
                    aguardou, ultima, mudou>>
  \/ /\ Em(f, "condicao")
     /\ IF i > elementos
        THEN Retorna(Textos(acc)) /\ UNCHANGED i
        ELSE PassoCondicao(f, elems[i]) /\ UNCHANGED <<ret, resultado>>
     /\ UNCHANGED <<fixo, espera, pagina, ate, relogio, aguardou, ultima,
                    mudou, elementos, acc>>
  \/ /\ Em(f, "formato")
     /\ PassoFormato(f, elems[i])
     /\ UNCHANGED <<fixo, espera, pagina, ate, relogio, ret, resultado,
                    aguardou, ultima, mudou, elementos>>

retorna_atributo_elementos ==
  \/ \E c \in Condicoes, fm \in Formatos :
       Invoca("retorna_atributo_elementos",
              [ComSeletor EXCEPT !.atributo = TRUE, !.funcao_condicao = c,
                                 !.funcao_formato = fm])
  \/ Compreensao("retorna_atributo_elementos")

retorna_texto_elementos ==
  \/ \E c \in Condicoes, fm \in Formatos :
       Invoca("retorna_texto_elementos",
              [ComSeletor EXCEPT !.funcao_condicao = c, !.funcao_formato = fm])
  \/ Compreensao("retorna_texto_elementos")

\* len(...) of what the callee returned
Tamanho(r) == IF r.k = "lista" THEN Len(r.s) ELSE r.n

retorna_numero_elementos ==
  \/ \E a \in BOOLEAN, c \in Condicoes :
       Invoca("retorna_numero_elementos",
              [ComSeletor EXCEPT !.atributo = a, !.funcao_condicao = c])
  \/ Entrada("retorna_numero_elementos", "ramo")
  \/ /\ Em("retorna_numero_elementos", "ramo")
     /\ IF args.atributo
        THEN Chama("retorna_atributo_elementos", "len")
        ELSE Chama("busca_elementos", "len")
     /\ SoPilha
  \/ /\ Em("retorna_numero_elementos", "len")
     /\ Retorna(Inteiro(Tamanho(ret)))
     /\ SoRetorno

\* faulty variant: the default content is chosen only when both are missing
SemFrame_ambos(a) == ~a.tipo_seletor /\ ~a.seletor

\* if tipo_seletor is None or seletor_frame is None
SemFrame(a) == ~a.tipo_seletor \/ ~a.seletor

troca_frame ==
  \/ \E t \in BOOLEAN, sl \in BOOLEAN :
       Invoca("troca_frame",
              [ArgsPadrao EXCEPT !.tipo_seletor = t, !.seletor = sl])
  \/ Entrada("troca_frame", "ramo")
  \/ /\ Em("troca_frame", "ramo")
     /\ IF SemFrame(args)
        THEN /\ contexto' = 0
             /\ ultima' = "switch_to_default_content"
             /\ Retorna(Nada)
             /\ UNCHANGED metodo
        ELSE /\ metodo' = "frame"
             /\ Chama("until", "fim")
             /\ UNCHANGED <<contexto, ultima, ret, resultado>>
     /\ UNCHANGED <<fixo, espera, compr, elems, relogio, end_time, observou,
                    aguardou, mudou>>
  \/ /\ Em("troca_frame", "fim")
     /\ Retorna(Nada)
     /\ SoRetorno

\* ------------------------------------------------------------ environment
\* The browser and the clock move while an operation runs.  The program sees
\* them only when it reads them, so their steps are taken right before a
\* read: any number of them fit there, which is every interleaving the
\* program can tell apart.
\* the next step of the program reads the clock
LeRelogio ==
  \/ Em("_aguarda_carregamento", "teste")
  \/ Em("until", "sono")

\* the next step of the program reads the matched elements
LePagina ==
  /\ ~Ocioso
  /\ \/ Em("until", "poll")
     \/ Topo.pc \in {"condicao", "formato"}
     \/ Em("retorna_atributo_elemento", "age")
     \/ Em("retorna_texto_elemento", "age")

Tick ==
  /\ LeRelogio
  /\ relogio < MaxTime
  /\ relogio' = relogio + 1
  /\ UNCHANGED <<fixo, espera, compr, pagina, ate, pilha, ret, resultado,
                 aguardou, ultima, mudou>>

\* the page's scripts change the value of a matched element
MudaValor ==
  /\ LePagina
  /\ \E j \in 1..Len(elems), v \in Valores :
       /\ v # elems[j]
       /\ elems' = [elems EXCEPT ![j] = v]
  /\ mudou' = (mudou \/ Topo.pc \in {"condicao", "formato"})
  /\ UNCHANGED <<fixo, espera, compr, contexto, ate, relogio, pilha, ret,
                 resultado, aguardou, ultima>>

\* the page's scripts add an element the selector matches
NovoElemento ==
  /\ LePagina
  /\ Len(elems) < MaxElems
  /\ \E v \in Valores : elems' = Append(elems, v)
  /\ UNCHANGED <<fixo, espera, compr, contexto, ate, relogio, pilha, ret,
                 resultado, aguardou, ultima, mudou>>

\* ---------------------------------------------------------- specification
Init ==
  /\ tempo_espera \in 0..MaxT
  /\ relogio = 0
  /\ elems = <<>>
  /\ contexto = 0
  /\ pilha = <<>>
  /\ args = ArgsPadrao
  /\ op = "nenhuma"
  /\ contextoAntes = 0
  /\ ret = Nada
  /\ resultado = SemResultado
  /\ tempo_inicial = 0 /\ tempo_limite = 0 /\ carregando = TRUE
  /\ polls = 0 /\ ultimoEstado = "nenhum"
  /\ end_time = 0 /\ metodo = "nenhum" /\ observou = FALSE
  /\ elementos = 0 /\ i = 1 /\ acc = <<>>
  /\ aguardou = FALSE /\ ultima = "nenhuma" /\ mudou = FALSE

Next ==
  \/ _aguarda_carregamento
  \/ until
  \/ acessa_url
  \/ aponta_para_elemento
  \/ busca_elemento_clicavel
  \/ busca_elemento_visivel
  \/ busca_elementos
  \/ clica_elemento
  \/ clica_botao_direito_elemento
  \/ insere_opcao_elemento
  \/ insere_texto_elemento
  \/ retorna_atributo_elemento
  \/ retorna_atributo_elementos
  \/ retorna_numero_elementos
  \/ retorna_texto_elemento
  \/ retorna_texto_elementos
  \/ troca_frame
  \/ Tick
  \/ MudaValor
  \/ NovoElemento

Spec == Init /\ [][Next]_vars

TypeOK ==
  /\ relogio \in 0..MaxTime
  /\ Len(elems) <= MaxElems
  /\ contexto \in 0..MaxDepth
  /\ Len(pilha) <= 4

\* ------------------------------------------------------------------ claims
Terminou == Ocioso /\ resultado.tipo # "nenhum"
Devolveu == Ocioso /\ resultado.tipo = "retorno"
EmEspera(l) == Em("_aguarda_carregamento", l)
Prazo == tempo_inicial + tempo_espera
Buscas == {"busca_elemento_clicavel", "busca_elemento_visivel",
           "busca_elementos"}
Listagens == {"retorna_atributo_elementos", "retorna_texto_elementos"}

\* C1 as stated: in every public operation, acessa_url included, no call that
\* acts on the browser happens before a readiness poll of the same invocation
\* has completed.
C1_TodasAguardam == ultima # "nenhuma" => aguardou

\* C1 amended: in every public operation except acessa_url, no call that acts
\* on the browser happens before a readiness poll of the same invocation has
\* completed.
C1_AguardamMenosAcessaUrl ==
  (op # "acessa_url" /\ ultima # "nenhuma") => aguardou

C1_Witness ==
  /\ op = "clica_elemento" /\ Devolveu
  /\ ultima = "click" /\ aguardou

\* C2: retorna_atributo_elemento returns the attribute value it read from the
\* first visible match.
C2_DevolveAtributo ==
  (op = "retorna_atributo_elemento" /\ Devolveu) => resultado.val = Texto(acc[1])

\* [f(v) : v in s, p(v)], in order
RECURSIVE FiltraFormata(_, _, _)
FiltraFormata(s, c, f) ==
  IF s = <<>> THEN <<>>
  ELSE LET resto == FiltraFormata(Tail(s), c, f)
       IN IF c = "None" \/ Head(s) # "2"
          THEN <<IF f = "None" THEN Head(s) ELSE "<" \o Head(s) \o ">">> \o resto
          ELSE resto

ValoresLidos == SubSeq(elems, 1, elementos)

\* C3: over matched elements whose values v_1..v_n stay as they are, the
\* result of retorna_atributo_elementos / retorna_texto_elementos is exactly
\* [f(v_i) : p(v_i)] in document order, and with the default predicate and
\* formatter it is v_1..v_n.
C3_FiltraEFormata ==
  (op \in Listagens /\ Devolveu /\ ~mudou) =>
    /\ resultado.val =
         Textos(FiltraFormata(ValoresLidos, args.funcao_condicao,
                              args.funcao_formato))
    /\ (args.funcao_condicao = "None" /\ args.funcao_formato = "None")
         => resultado.val.s = ValoresLidos

C3_Witness ==
  /\ op = "retorna_atributo_elementos" /\ Devolveu /\ ~mudou
  /\ args.funcao_condicao = "ne2" /\ args.funcao_formato = "fmt"
  /\ ValoresLidos = <<"2", "1">>
  /\ resultado.val.s = <<"<1>">>

\* C4: retorna_numero_elementos without an attribute returns the number of
\* elements the selector matches, for every number of matches, zero included.
C4_ContaTodos ==
  (op = "retorna_numero_elementos" /\ ~args.atributo /\ Terminou) =>
    /\ resultado.tipo = "retorno"
    /\ resultado.val = Inteiro(Len(elems))

\* C5: the busca_* operations never hand back None or an empty list: they
\* return the element(s) a poll found, keep polling while the window is open,
\* and end in TimeoutException only after the window has passed with no poll
\* having found the condition true.
C5_Resultados ==
  /\ (op \in Buscas /\ Terminou) =>
       \/ /\ resultado.tipo = "retorno"
          /\ resultado.val.k \in {"elemento", "elementos"}
          /\ resultado.val.n >= 1
          /\ observou
       \/ /\ resultado.tipo = "excecao"
          /\ resultado.exc = "TimeoutException"
  /\ (Terminou /\ resultado.exc = "TimeoutException") =>
       (relogio > end_time /\ ~observou)

C5_Passos ==
  /\ (Em("until", "poll") /\ observou') => Len(pilha') = Len(pilha) - 1
  /\ (Em("until", "sono") /\ relogio <= end_time /\ pilha' # pilha)
       => pilha' = [pilha EXCEPT ![Len(pilha)].pc = "poll"]

C5_BuscaOuTimeout == []C5_Resultados /\ [][C5_Passos]_vars

C5_Witness ==
  /\ op = "busca_elemento_visivel" /\ Terminou
  /\ resultado.exc = "TimeoutException"
  /\ tempo_espera >= 1 /\ relogio > end_time

\* C6: when the deadline passes with the page still loading, the readiness
\* wait returns normally to the continuation its caller left, as it does
\* after a successful wait; no operation ends in an exception before it has
\* called the driver.
C6_Retorno ==
  (EmEspera("teste") /\ carregando /\ relogio >= Prazo /\ pilha' # pilha) =>
    /\ pilha' = SubSeq(pilha, 1, Len(pilha) - 1)
    /\ resultado' = resultado

C6_EsperaNuncaFalha ==
  /\ [](resultado.tipo = "excecao" => ultima # "nenhuma")
  /\ [][C6_Retorno]_vars

C6_Witness ==
  /\ op = "clica_elemento" /\ Len(pilha) = 3
  /\ EmEspera("teste") /\ carregando
  /\ tempo_espera >= 1 /\ relogio >= Prazo

\* C7: a readiness wait whose polls never read "complete" returns only when
\* the clock reads at least tempo_inicial + tempo_espera, and once the clock
\* reads that much its next step is the return.
C7_SoDepoisDoPrazo ==
  (EmEspera("teste") /\ carregando /\ Len(pilha') < Len(pilha))
    => relogio >= Prazo

C7_RetornaNoPrazo ==
  (EmEspera("teste") /\ relogio >= Prazo /\ pilha' # pilha)
    => Len(pilha') < Len(pilha)

C7_EsperaOPrazo == [][C7_SoDepoisDoPrazo /\ C7_RetornaNoPrazo]_vars

C7_Witness ==
  /\ EmEspera("teste") /\ carregando /\ polls >= 2
  /\ tempo_espera = MaxT /\ relogio = Prazo

\* C8: after a poll that read "complete" in any letter case no further poll
\* is issued: the next step of the wait is its return, whatever the deadline;
\* a first poll that reads "complete" is the only poll.
C8_SemPollDepois ==
  (EmEspera("poll") /\ polls >= 1) => Lower(ultimoEstado) # "complete"

C8_RetornaLogo ==
  (EmEspera("teste") /\ Lower(ultimoEstado) = "complete" /\ pilha' # pilha)
    => Len(pilha') < Len(pilha)

C8_ParaAoCompletar == []C8_SemPollDepois /\ [][C8_RetornaLogo]_vars

C8_Witness ==
  /\ EmEspera("teste") /\ ultimoEstado = "COMPLETE" /\ polls = 1
  /\ relogio < tempo_limite

\* C9: troca_frame with the selector kind or the frame selector missing
\* switches to the default content from any frame depth and never waits for
\* a frame; it waits for a frame only when both are given.
C9_SemArgumentosVaiAoTopo ==
  op = "troca_frame" =>
    /\ (~args.tipo_seletor \/ ~args.seletor) =>
         /\ ultima \in {"nenhuma", "switch_to_default_content"}
         /\ Terminou => /\ resultado = [tipo |-> "retorno", exc |-> "",
                                        val |-> Nada]
                        /\ contexto = 0
                        /\ ultima = "switch_to_default_content"
    /\ (args.tipo_seletor /\ args.seletor) =>
         ultima \in {"nenhuma", "until"}

C9_Witness ==
  /\ op = "troca_frame" /\ Devolveu
  /\ ~args.tipo_seletor /\ ~args.seletor
  /\ contextoAntes = MaxDepth /\ contexto = 0

\* C10: every entry of the list a comprehension builds is f(v) for a value v
\* on which the predicate held.
C10_FormataOQueFiltrou ==
  (op \in Listagens \cup {"retorna_numero_elementos"}) =>
    \A k \in 1..Len(acc) :
      \E v \in Valores :
        /\ funcao_condicao(args.funcao_condicao, v)
        /\ acc[k] = funcao_formato(args.funcao_formato, v)

====
